---- MODULE Spec2Model ----
(***************************************************************************)
(* A model of src/app.py: the WhatsApp PDF question-answering webhook.      *)
(*                                                                         *)
(*   - split_message, the answer splitter, as operators computed the way   *)
(*     the code computes them and as a loop stepped by SplitSpec;          *)
(*   - the webhook handler, run by concurrent workers of one process that  *)
(*     share the global user_sessions, the file sessions.json, the FAISS   *)
(*     index directories and the temp_pdfs folder (Spec).                  *)
(*                                                                         *)
(* A text is a sequence of one-character strings.  Positions in the        *)
(* operators below are Python's (0-based); SubSeq is 1-based.              *)
(***************************************************************************)
EXTENDS Integers, Sequences, FiniteSets, TLC

\* ------------------------------------------------------------------ bounds

\* Longest text SplitSpec draws as an input of split_message.
MaxLen == 5

\* Largest max_length SplitSpec draws.
MaxLimit == 3

\* How many inbound events the webhook receives in one behaviour.
MaxEvents == 2

\* The model's max_length for answers: split_message's default, 1550, scaled
\* down so that the drawn answers exceed it.
AnswerLimit == 3

\* The characters of the drawn texts: a letter, the period, and the two
\* whitespace characters the splitter looks for.
Chars == {"a", ".", " ", "\n"}

\* ----------------------------------------------------------- text helpers

Min(a, b) == IF a < b THEN a ELSE b

SetMax(S) == CHOOSE x \in S : \A y \in S : y <= x

\* str.isspace of one character (of the characters modelled).
IsSpace(c) == c \in {" ", "\n"}

\* text[a:b], Python's slice with 0 <= a, clamped at the end of the text.
Slice(text, a, b) == SubSeq(text, a + 1, Min(b, Len(text)))

\* text.rfind(sub, 0, end): the highest 0-based index at which sub occurs
\* wholly inside text[0:end], or -1.
RFind(text, sub, end) ==
    LET e == Min(end, Len(text))
        hits == {i \in 0..(e - Len(sub)) :
                    \A k \in 1..Len(sub) : text[i + k] = sub[k]}
    IN  IF hits = {} THEN -1 ELSE SetMax(hits)

\* A plausible bug: the leading character is dropped whatever it is.
LStripDropsOne(text) == IF text = <<>> THEN <<>> ELSE Tail(text)

\* text.lstrip(): the text without its leading whitespace.
LStrip(text) ==
    LET solid == {i \in 1..Len(text) : ~IsSpace(text[i])}
    IN  IF solid = {} THEN <<>>
        ELSE SubSeq(text, CHOOSE i \in solid : \A j \in solid : i <= j, Len(text))

\* bool(part.strip()): the part holds a character that is not whitespace.
StripNonEmpty(part) == \E i \in 1..Len(part) : ~IsSpace(part[i])

\* A plausible bug: the ". " preference is skipped.
SplitPointNoSentence(text, max_length) ==
    LET nl == RFind(text, <<"\n">>, max_length)
        sp == RFind(text, <<" ">>, max_length)
    IN  IF nl # -1 THEN nl
        ELSE IF sp # -1 THEN sp
        ELSE max_length

\* The cut point of one loop iteration: the last newline of text[0:max_length],
\* else the last ". ", else the last space, else max_length.
SplitPoint(text, max_length) ==
    LET nl == RFind(text, <<"\n">>, max_length)
        dot == RFind(text, <<".", " ">>, max_length)
        sp == RFind(text, <<" ">>, max_length)
    IN  IF nl # -1 THEN nl
        ELSE IF dot # -1 THEN dot
        ELSE IF sp # -1 THEN sp
        ELSE max_length

\* Which of the four rules gave the cut point.
CutKind(text, max_length) ==
    IF RFind(text, <<"\n">>, max_length) # -1 THEN "newline"
    ELSE IF RFind(text, <<".", " ">>, max_length) # -1 THEN "sentence"
    ELSE IF RFind(text, <<" ">>, max_length) # -1 THEN "space"
    ELSE "hard"

\* parts.append(text[:split_point + 1])
CutPart(text, max_length) == Slice(text, 0, SplitPoint(text, max_length) + 1)

\* A plausible bug: the remainder starts at the cut point, not after it.
CutRestFromCut(text, max_length) ==
    LStrip(Slice(text, SplitPoint(text, max_length), Len(text)))

\* text = text[split_point + 1:].lstrip()
CutRest(text, max_length) ==
    LStrip(Slice(text, SplitPoint(text, max_length) + 1, Len(text)))

\* A plausible bug: the parts are returned unfiltered.
KeepAllParts(parts) == parts

\* [part for part in parts if part.strip()]
KeepNonBlank(parts) == SelectSeq(parts, StripNonEmpty)

RECURSIVE SplitLoop(_, _, _)
\* The while loop and the append that follows it.
SplitLoop(text, max_length, parts) ==
    IF Len(text) > max_length
    THEN SplitLoop(CutRest(text, max_length), max_length,
                   Append(parts, CutPart(text, max_length)))
    ELSE Append(parts, text)

\* split_message(text, max_length)
split_message(text, max_length) ==
    IF text = <<>> THEN <<>>
    ELSE KeepNonBlank(SplitLoop(text, max_length, <<>>))

\* The worked example "AAAA. BBBB. CCCC.", split at max_length 10.
ExampleText ==
    <<"A", "A", "A", "A", ".", " ", "B", "B", "B", "B", ".", " ",
      "C", "C", "C", "C", ".">>

\* The texts SplitSpec draws: every text of at most MaxLen characters.
Texts == UNION {[1..n -> Chars] : n \in 0..MaxLen}

\* ------------------------------------------------------- webhook: the data

\* The threads of the server process that run webhook() concurrently.
Workers == {"t1", "t2"}

\* WaId of the senders.
Users == {"u", "v", "w"}

\* MediaUrl0 of the two documents sent: the path's segments, and whether a
\* query string follows.
MediaUrls ==
    {[segs |-> <<"Media", "d1.pdf">>, query |-> FALSE],
     [segs |-> <<"Media", "d2.pdf">>, query |-> TRUE]}

NoUrl == [segs |-> <<"none">>, query |-> FALSE]

\* A plausible bug: the first segment is taken, not the last.
FirstSegment(url) == url.segs[1]

\* media_url.split('/')[-1], cut at the '?' when the URL has one.
OriginalFileName(url) == url.segs[Len(url.segs)]

Docs == {OriginalFileName(url) : url \in MediaUrls}

\* os.path.join("faiss_indices", user_waid, "faiss_index")
IndexPath(user_waid) == <<"faiss_indices", user_waid, "faiss_index">>

IndexPaths == {IndexPath(x) : x \in Users}

\* The value stored under user_sessions[user_waid].
SessionRecord(path, name) == [faiss_index_path |-> path, pdf_name |-> name]

\* user_sessions = {}
EmptySessions == [x \in {} |-> SessionRecord(<<>>, "")]

\* user_sessions[user_waid] = record
PutSession(sessions, user_waid, record) ==
    [x \in DOMAIN sessions \cup {user_waid} |->
        IF x = user_waid THEN record ELSE sessions[x]]

\* json.dump(user_sessions, f): the file's text, as the set of its members.
JsonDump(sessions) ==
    {<<x, sessions[x].faiss_index_path, sessions[x].pdf_name>> :
        x \in DOMAIN sessions}

\* json.load(f) of a text json.dump wrote.
JsonLoad(text) ==
    [x \in {m[1] : m \in text} |->
        LET m == CHOOSE m \in text : m[1] = x
        IN  SessionRecord(m[2], m[3])]

\* sessions.json: missing, of size 0, not parseable, or a dumped collection.
FileMissing == [kind |-> "missing", text |-> {}]
FileEmpty == [kind |-> "empty", text |-> {}]
FileCorrupt == [kind |-> "corrupt", text |-> {}]
FileOk(sessions) == [kind |-> "ok", text |-> JsonDump(sessions)]

\* A FAISS index directory: whether it exists, and the document its two
\* files (index.faiss, index.pkl) were written from.
NoIndex == [dir |-> FALSE, faiss |-> "none", pkl |-> "none"]

\* What FAISS.load_local read, or that get_qa_chain_for_user returned None.
NoChain == [faiss |-> "none", pkl |-> "none"]

\* One line of a handler's history.
Entry(op, kind, i, n, body) ==
    [op |-> op, kind |-> kind, i |-> i, n |-> n, body |-> body]

Did(op) == Entry(op, "", 0, 0, <<>>)

\* send_whatsapp_message(sender_phone, <the fixed reply of that kind>)
Send(kind) == Entry("send", kind, 0, 0, <<>>)

\* The answers the generator returns: one that fits, one that is split, one
\* of white space only.
Answers == {<<"a">>, <<"a", " ", "a", "a">>, <<" ">>}

\* An event that was handled: what it was and how it ended.
NoEvent ==
    [id |-> 0, kind |-> "none", user |-> "none", url |-> NoUrl,
     ok |-> FALSE, solo |-> FALSE]

\* A worker that handles nothing.
Idle ==
    [pc |-> "idle", id |-> 0, kind |-> "none", user |-> "none", url |-> NoUrl,
     tmp |-> FALSE, sucesso |-> FALSE, chain |-> NoChain, log |-> <<>>,
     solo |-> FALSE, prev |-> NoEvent, at_load |-> {}, loaded |-> EmptySessions,
     partes_resposta |-> <<>>, sent |-> 0]

Finished(r) == r.pc \in {"idle", "done", "crashed"}

\* --------------------------------------------------------------- variables

VARIABLES
    sm_in,      \* split_message: the argument text
    sm_limit,   \* split_message: max_length
    sm_text,    \* split_message: the local text, what is left to split
    sm_parts,   \* split_message: the local parts
    sm_cut,     \* the rule that gave the last cut ("none" before any cut)
    sm_prev,    \* the text the last iteration started from
    sm_pc,      \* "start", "loop", "done"
    sm_out      \* the returned list

smvars == <<sm_in, sm_limit, sm_text, sm_parts, sm_cut, sm_prev, sm_pc, sm_out>>

VARIABLES
    user_sessions,  \* the process's global dictionary
    sessions_file,  \* sessions.json
    writers,        \* the workers that hold sessions.json open for writing
    clash,          \* the writers whose writing overlapped another's
    faiss_indices,  \* the index directories, by location
    temp_pdfs,      \* the events whose downloaded file is in temp_pdfs
    h,              \* per worker: the handler's position, locals and history
    events,         \* how many events were received
    last            \* the event that finished last

hvars ==
    <<user_sessions, sessions_file, writers, clash, faiss_indices, temp_pdfs,
      h, events, last>>

vars == <<smvars, hvars>>

\* ------------------------------------------------------------ split_message

\* The state of a fresh deployment: no sessions.json, no index, no download.
FreshDeployment ==
    /\ user_sessions = EmptySessions
    /\ sessions_file = FileMissing
    /\ faiss_indices = [p \in IndexPaths |-> NoIndex]

\* The state after a restart of a deployment in which user w had sent d1.pdf:
\* the file and the index are on storage, the dictionary is empty again.
RestartedDeployment ==
    /\ user_sessions = EmptySessions
    /\ sessions_file =
          FileOk(PutSession(EmptySessions, "w",
                            SessionRecord(IndexPath("w"), "d1.pdf")))
    /\ faiss_indices =
          [p \in IndexPaths |->
              IF p = IndexPath("w")
              THEN [dir |-> TRUE, faiss |-> "d1.pdf", pkl |-> "d1.pdf"]
              ELSE NoIndex]

HandlerInit ==
    /\ FreshDeployment \/ RestartedDeployment
    /\ writers = {}
    /\ clash = {}
    /\ temp_pdfs = {}
    /\ h = [t \in Workers |-> Idle]
    /\ events = 0
    /\ last = NoEvent

SplitInit ==
    /\ \/ sm_in \in Texts /\ sm_limit \in 1..MaxLimit
       \/ sm_in = ExampleText /\ sm_limit = 10
    /\ sm_text = sm_in
    /\ sm_parts = <<>>
    /\ sm_cut = "none"
    /\ sm_prev = <<>>
    /\ sm_pc = "start"
    /\ sm_out = <<>>
    /\ HandlerInit

\* if not text: return parts
SplitEnter ==
    /\ sm_pc = "start"
    /\ IF sm_text = <<>>
       THEN sm_pc' = "done" /\ sm_out' = sm_parts
       ELSE sm_pc' = "loop" /\ sm_out' = sm_out
    /\ UNCHANGED <<sm_in, sm_limit, sm_text, sm_parts, sm_cut, sm_prev>>
    /\ UNCHANGED hvars

\* One iteration of the while loop.
SplitIter ==
    /\ sm_pc = "loop"
    /\ Len(sm_text) > sm_limit
    /\ sm_parts' = Append(sm_parts, CutPart(sm_text, sm_limit))
    /\ sm_text' = CutRest(sm_text, sm_limit)
    /\ sm_cut' = CutKind(sm_text, sm_limit)
    /\ sm_prev' = sm_text
    /\ UNCHANGED <<sm_in, sm_limit, sm_pc, sm_out>>
    /\ UNCHANGED hvars

\* parts.append(text); return the parts that are not blank
SplitReturn ==
    /\ sm_pc = "loop"
    /\ Len(sm_text) <= sm_limit
    /\ sm_parts' = Append(sm_parts, sm_text)
    /\ sm_out' = KeepNonBlank(sm_parts')
    /\ sm_pc' = "done"
    /\ UNCHANGED <<sm_in, sm_limit, sm_text, sm_cut, sm_prev>>
    /\ UNCHANGED hvars

SplitNext == SplitEnter \/ SplitIter \/ SplitReturn

SplitSpec == SplitInit /\ [][SplitNext]_vars

\* A call of split_message that has started keeps running.
SplitFairSpec == SplitSpec /\ WF_vars(SplitNext)

\* ------------------------------------------------------------- the webhook

\* message_category: 'document' if num_media > 0 and media_url else 'text'
MessageCategory(num_media, media_url) ==
    IF num_media > 0 /\ media_url # NoUrl THEN "document" ELSE "text"

\* What a finished handler leaves in last.
Summary(r, ok) ==
    [id |-> r.id, kind |-> r.kind, user |-> r.user, url |-> r.url,
     ok |-> ok, solo |-> r.solo]

\* The handler of worker t moves to pc, with entries added to its history.
Step(r, pc, entries) == [r EXCEPT !.pc = pc, !.log = r.log \o entries]

\* A request arrives and a free worker takes it.
Receive(t) ==
    /\ UNCHANGED smvars
    /\ Finished(h[t])
    /\ events < MaxEvents
    /\ \E user \in Users, num_media \in {0, 1}, media_url \in MediaUrls \cup {NoUrl} :
          /\ (num_media = 0) <=> (media_url = NoUrl)
          /\ LET kind == MessageCategory(num_media, media_url)
                 fresh == [Idle EXCEPT !.pc = "load", !.id = events + 1,
                                       !.kind = kind, !.user = user,
                                       !.url = media_url,
                                       !.solo = \A x \in Workers \ {t} : Finished(h[x]),
                                       !.prev = last]
             IN  h' = [x \in Workers |->
                          IF x = t THEN fresh
                          ELSE IF Finished(h[x]) THEN h[x]
                          ELSE [h[x] EXCEPT !.solo = FALSE]]
    /\ events' = events + 1
    /\ UNCHANGED <<user_sessions, sessions_file, writers, clash, faiss_indices,
                   temp_pdfs, last>>

\* load_sessions: what user_sessions is bound to afterwards.
LoadedSessions(file, sessions) ==
    CASE file.kind = "missing" -> EmptySessions
      [] file.kind = "empty" -> sessions
      [] file.kind = "corrupt" -> EmptySessions
      [] OTHER -> JsonLoad(file.text)

\* load_sessions: a missing sessions.json is created holding "{}".
FileAfterLoad(file) ==
    IF file.kind = "missing" THEN FileOk(EmptySessions) ELSE file

\* webhook() starts: load_sessions(), then the category decides the branch.
\* The history keeps what the file held, how many writers had it open and
\* what user_sessions was bound to when load_sessions returned.
LoadSessions(t) ==
    /\ UNCHANGED smvars
    /\ h[t].pc = "load"
    /\ user_sessions' = LoadedSessions(sessions_file, user_sessions)
    /\ sessions_file' = FileAfterLoad(sessions_file)
    /\ h' = [h EXCEPT ![t] =
                Step([@ EXCEPT !.at_load = sessions_file.text,
                               !.loaded = LoadedSessions(sessions_file, user_sessions)],
                     IF @.kind = "document" THEN "notice" ELSE "check",
                     <<Entry("load_sessions", sessions_file.kind,
                             Cardinality(writers), 0, <<>>)>>)]
    /\ UNCHANGED <<writers, clash, faiss_indices, temp_pdfs, events, last>>

\* download_file: whether a file is left under temp_pdfs. The request fails
\* before the file is opened, or while its chunks are written, or not at all.
DownloadWritesFile(outcome) == outcome \in {"ok", "fail_after"}

\* The "processing" notice and download_file; a failed download is answered
\* at once.
DocDownload(t) ==
    /\ UNCHANGED smvars
    /\ h[t].pc = "notice"
    /\ \E outcome \in {"ok", "fail_before", "fail_after"} :
          /\ temp_pdfs' = IF DownloadWritesFile(outcome)
                          THEN temp_pdfs \cup {h[t].id} ELSE temp_pdfs
          /\ IF outcome = "ok"
             THEN /\ h' = [h EXCEPT ![t] =
                              Step([@ EXCEPT !.tmp = TRUE], "ingest",
                                   <<Send("processing"), Did("download")>>)]
                  /\ last' = last
             ELSE /\ h' = [h EXCEPT ![t] =
                              Step(@, "done",
                                   <<Send("processing"), Did("download"),
                                     Send("download_failed")>>)]
                  /\ last' = Summary(h[t], FALSE)
    /\ UNCHANGED <<user_sessions, sessions_file, writers, clash, faiss_indices,
                   events>>

\* processar_pdf_e_criar_qa_chain_user up to the first file save_local
\* writes: the index is built, the directory made and index.faiss written.
\* Anything may raise; the except clause turns it into (False, message).
IngestBuild(t) ==
    /\ UNCHANGED smvars
    /\ h[t].pc = "ingest"
    /\ LET path == IndexPath(h[t].user)
           doc == OriginalFileName(h[t].url)
       IN  \E outcome \in {"ok", "fail_build", "fail_write"} :
              /\ faiss_indices' =
                    CASE outcome = "ok" ->
                            [faiss_indices EXCEPT ![path].dir = TRUE,
                                                  ![path].faiss = doc]
                      [] outcome = "fail_write" ->
                            [faiss_indices EXCEPT ![path].dir = TRUE]
                      [] OTHER -> faiss_indices
              /\ h' = [h EXCEPT ![t] =
                          Step(@, IF outcome = "ok" THEN "ingest_pkl" ELSE "doc_finish",
                               <<Entry("ingest", outcome, 0, 0, <<>>)>>)]
    /\ UNCHANGED <<user_sessions, sessions_file, writers, clash, temp_pdfs,
                   events, last>>

\* save_local writes its second file, index.pkl, and the function returns
\* (True, faiss_index_path).
IngestPkl(t) ==
    /\ UNCHANGED smvars
    /\ h[t].pc = "ingest_pkl"
    /\ LET path == IndexPath(h[t].user)
           doc == OriginalFileName(h[t].url)
       IN  \E outcome \in {"ok", "fail_write"} :
              /\ faiss_indices' =
                    IF outcome = "ok"
                    THEN [faiss_indices EXCEPT ![path].pkl = doc]
                    ELSE faiss_indices
              /\ h' = [h EXCEPT ![t] =
                          Step([@ EXCEPT !.sucesso = (outcome = "ok")],
                               IF outcome = "ok" THEN "update" ELSE "doc_finish",
                               <<Entry("ingest_pkl", outcome, 0, 0, <<>>)>>)]
    /\ UNCHANGED <<user_sessions, sessions_file, writers, clash, temp_pdfs,
                   events, last>>

\* user_sessions[user_waid] = {"faiss_index_path": ..., "pdf_name": ...}
SessionUpdate(t) ==
    /\ UNCHANGED smvars
    /\ h[t].pc = "update"
    /\ user_sessions' =
          PutSession(user_sessions, h[t].user,
                     SessionRecord(IndexPath(h[t].user), OriginalFileName(h[t].url)))
    /\ h' = [h EXCEPT ![t] = Step(@, "save_open", <<Did("update")>>)]
    /\ UNCHANGED <<sessions_file, writers, clash, faiss_indices, temp_pdfs,
                   events, last>>

\* save_sessions: open('sessions.json', 'w') truncates the file.
SaveOpen(t) ==
    /\ UNCHANGED smvars
    /\ h[t].pc = "save_open"
    /\ sessions_file' = FileEmpty
    /\ writers' = writers \cup {t}
    /\ clash' = IF writers = {} THEN clash ELSE clash \cup writers \cup {t}
    /\ h' = [h EXCEPT ![t] = Step(@, "save_write", <<Did("save_open")>>)]
    /\ UNCHANGED <<user_sessions, faiss_indices, temp_pdfs, events, last>>

\* save_sessions: json.dump fills the buffer and part of it reaches the file.
SaveFlush(t) ==
    /\ UNCHANGED smvars
    /\ h[t].pc = "save_write"
    /\ sessions_file.kind = "empty"
    /\ sessions_file' = FileCorrupt
    /\ UNCHANGED <<user_sessions, writers, clash, faiss_indices, temp_pdfs, h,
                   events, last>>

\* A plausible bug: the dictionary the module started with is written.
DumpedEmpty(sessions) == JsonDump(EmptySessions)

\* save_sessions: the text json.dump(user_sessions, f) produces.
Dumped(sessions) == JsonDump(sessions)

\* What sessions.json holds once a writer has written mine from offset 0 and
\* closed. It opened a file it had truncated; whatever the file holds now,
\* another writer wrote while this one had it open (overlapped), or this
\* writer flushed itself. Text written over a longer text leaves the longer
\* one's tail behind it, which does not parse.
FilesAfterWrite(file, mine, overlapped) ==
    CASE file.kind = "ok" /\ file.text \subseteq mine -> {[kind |-> "ok", text |-> mine]}
      [] file.kind = "ok" /\ mine \subseteq file.text -> {FileCorrupt}
      [] file.kind = "ok" -> {[kind |-> "ok", text |-> mine], FileCorrupt}
      [] file.kind = "corrupt" /\ overlapped -> {[kind |-> "ok", text |-> mine], FileCorrupt}
      [] OTHER -> {[kind |-> "ok", text |-> mine]}

\* save_sessions: json.dump(user_sessions, f) and the close.
SaveClose(t) ==
    /\ UNCHANGED smvars
    /\ h[t].pc = "save_write"
    /\ sessions_file' \in
          FilesAfterWrite(sessions_file, Dumped(user_sessions), t \in clash)
    /\ writers' = writers \ {t}
    /\ clash' = clash \ {t}
    /\ h' = [h EXCEPT ![t] = Step(@, "doc_finish", <<Did("save")>>)]
    /\ UNCHANGED <<user_sessions, faiss_indices, temp_pdfs, events, last>>

\* save_sessions raises (the write fails): nothing in webhook() catches it,
\* the request ends with the exception.
SaveFail(t) ==
    /\ UNCHANGED smvars
    /\ h[t].pc = "save_write"
    /\ writers' = writers \ {t}
    /\ clash' = clash \ {t}
    /\ h' = [h EXCEPT ![t] = Step(@, "crashed", <<Did("save_failed")>>)]
    /\ last' = Summary(h[t], FALSE)
    /\ UNCHANGED <<user_sessions, sessions_file, faiss_indices, temp_pdfs, events>>

\* The reply is chosen, os.remove(caminho_pdf_baixado) runs, the reply is
\* sent.
DocFinish(t) ==
    /\ UNCHANGED smvars
    /\ h[t].pc = "doc_finish"
    /\ temp_pdfs' = temp_pdfs \ {h[t].id}
    /\ h' = [h EXCEPT ![t] =
                Step(@, "done",
                     <<Did("remove"),
                       IF @.sucesso
                       THEN Entry("send", "success", 0, 0, <<OriginalFileName(@.url)>>)
                       ELSE Send("ingest_error")>>)]
    /\ last' = Summary(h[t], h[t].sucesso)
    /\ UNCHANGED <<user_sessions, sessions_file, writers, clash, faiss_indices,
                   events>>

\* A plausible bug: every sender is taken to have a session.
EveryoneInSessions(user_waid, sessions) == TRUE

\* user_waid in user_sessions
InSessions(user_waid, sessions) == user_waid \in DOMAIN sessions

\* The text branch: user_waid not in user_sessions gives the onboarding
\* prompt.
TextCheck(t) ==
    /\ UNCHANGED smvars
    /\ h[t].pc = "check"
    /\ LET seen == Entry("check",
                         IF h[t].user \in DOMAIN user_sessions
                         THEN "present" ELSE "absent", 0, 0, <<>>)
       IN  IF InSessions(h[t].user, user_sessions)
           THEN /\ h' = [h EXCEPT ![t] = Step(@, "qa_first", <<seen>>)]
                /\ last' = last
           ELSE /\ h' = [h EXCEPT ![t] = Step(@, "done", <<seen, Send("onboarding")>>)]
                /\ last' = Summary(h[t], TRUE)
    /\ UNCHANGED <<user_sessions, sessions_file, writers, clash, faiss_indices,
                   temp_pdfs, events>>

\* get_qa_chain_for_user: the index the chain is built on, or NoChain for
\* None: no session or no path, no directory, a file missing, or a load that
\* raises.
GetQaChain(user_waid, sessions, indices, load_raises) ==
    IF ~(user_waid \in DOMAIN sessions
         /\ sessions[user_waid].faiss_index_path # <<>>)
    THEN NoChain
    ELSE LET index == indices[sessions[user_waid].faiss_index_path]
         IN  IF ~index.dir THEN NoChain
             ELSE IF index.faiss = "none" \/ index.pkl = "none" \/ load_raises
             THEN NoChain
             ELSE [faiss |-> index.faiss, pkl |-> index.pkl]

\* The history line of one get_qa_chain_for_user call.
Loaded(chain, load_raises) ==
    Entry("index_load", IF load_raises THEN "raised" ELSE chain.faiss, 0, 0,
          <<chain.pkl>>)

\* The condition's second half: not get_qa_chain_for_user(user_waid).
GetQaFirst(t) ==
    /\ UNCHANGED smvars
    /\ h[t].pc = "qa_first"
    /\ \E load_raises \in BOOLEAN :
          LET chain == GetQaChain(h[t].user, user_sessions, faiss_indices, load_raises)
          IN  IF chain = NoChain
              THEN /\ h' = [h EXCEPT ![t] =
                               Step(@, "done",
                                    <<Loaded(chain, load_raises), Send("onboarding")>>)]
                   /\ last' = Summary(h[t], TRUE)
              ELSE /\ h' = [h EXCEPT ![t] =
                               Step(@, "qa_second", <<Loaded(chain, load_raises)>>)]
                   /\ last' = last
    /\ UNCHANGED <<user_sessions, sessions_file, writers, clash, faiss_indices,
                   temp_pdfs, events>>

\* qa_chain = get_qa_chain_for_user(user_waid), the second call.
GetQaSecond(t) ==
    /\ UNCHANGED smvars
    /\ h[t].pc = "qa_second"
    /\ \E load_raises \in BOOLEAN :
          LET chain == GetQaChain(h[t].user, user_sessions, faiss_indices, load_raises)
          IN  IF chain = NoChain
              THEN /\ h' = [h EXCEPT ![t] =
                               Step(@, "done",
                                    <<Loaded(chain, load_raises), Send("reload_index")>>)]
                   /\ last' = Summary(h[t], TRUE)
              ELSE /\ h' = [h EXCEPT ![t] =
                               Step([@ EXCEPT !.chain = chain], "invoke",
                                    <<Loaded(chain, load_raises)>>)]
                   /\ last' = last
    /\ UNCHANGED <<user_sessions, sessions_file, writers, clash, faiss_indices,
                   temp_pdfs, events>>

\* The loop's messages for the parts of one answer, without the marker.
PartMessagesUnmarked(parts) ==
    [i \in 1..Len(parts) |-> Entry("send", "part_plain", 0, 0, parts[i])]

\* part_message for each of partes_resposta: "(Parte i/N)\n" before the
\* part when there is more than one part.
PartMessages(parts) ==
    [i \in 1..Len(parts) |->
        IF Len(parts) > 1
        THEN Entry("send", "part_marked", i, Len(parts), parts[i])
        ELSE Entry("send", "part_plain", 0, 0, parts[i])]

\* qa_chain.invoke, then the answer is split; an exception is answered with
\* the apology.
Invoke(t) ==
    /\ UNCHANGED smvars
    /\ h[t].pc = "invoke"
    /\ \/ /\ \E answer \in Answers :
                h' = [h EXCEPT ![t] =
                         Step([@ EXCEPT !.partes_resposta =
                                           split_message(answer, AnswerLimit)],
                              "deliver",
                              <<Entry("invoke", "ok", 0, 0, answer)>>)]
          /\ last' = last
       \/ /\ h' = [h EXCEPT ![t] =
                      Step(@, "done",
                           <<Entry("invoke", "raised", 0, 0, <<>>),
                             Send("question_error")>>)]
          /\ last' = Summary(h[t], TRUE)
    /\ UNCHANGED <<user_sessions, sessions_file, writers, clash, faiss_indices,
                   temp_pdfs, events>>

\* An exception of client.messages.create leaves send_whatsapp_message.
SendPropagates == FALSE

\* send_whatsapp_message: `except Exception` prints and returns.
SendCatches == TRUE

\* The replies after the loop if control went on to the final send.
FinalReplyAfterParts == <<Send("question_error")>>

\* `return jsonify(...)` ends the handler right after the loop.
RepliesAfterParts == <<>>

\* One iteration of the loop: send_whatsapp_message(sender_phone,
\* part_message), which Twilio accepts or which raises inside the function.
DeliverPart(t) ==
    /\ UNCHANGED smvars
    /\ h[t].pc = "deliver"
    /\ h[t].sent < Len(h[t].partes_resposta)
    /\ LET i == h[t].sent + 1
           attempt == PartMessages(h[t].partes_resposta)[i]
           failed == Entry("send_failed", attempt.kind, i,
                           Len(h[t].partes_resposta), <<>>)
       IN  \/ /\ h' = [h EXCEPT ![t] = Step([@ EXCEPT !.sent = i], "deliver",
                                             <<attempt>>)]
              /\ last' = last
           \/ IF SendCatches
              THEN /\ h' = [h EXCEPT ![t] = Step([@ EXCEPT !.sent = i], "deliver",
                                                 <<attempt, failed>>)]
                   /\ last' = last
              ELSE /\ h' = [h EXCEPT ![t] =
                               Step([@ EXCEPT !.sent = i], "done",
                                    <<attempt, failed, Send("question_error")>>)]
                   /\ last' = Summary(h[t], TRUE)
    /\ UNCHANGED <<user_sessions, sessions_file, writers, clash, faiss_indices,
                   temp_pdfs, events>>

\* The loop is over: return jsonify({"status": "ok, multipart message sent"}).
DeliverReturn(t) ==
    /\ UNCHANGED smvars
    /\ h[t].pc = "deliver"
    /\ h[t].sent = Len(h[t].partes_resposta)
    /\ h' = [h EXCEPT ![t] = Step(@, "done", RepliesAfterParts)]
    /\ last' = Summary(h[t], TRUE)
    /\ UNCHANGED <<user_sessions, sessions_file, writers, clash, faiss_indices,
                   temp_pdfs, events>>

Init ==
    /\ HandlerInit
    /\ sm_in = <<>>
    /\ sm_limit = AnswerLimit
    /\ sm_text = <<>>
    /\ sm_parts = <<>>
    /\ sm_cut = "none"
    /\ sm_prev = <<>>
    /\ sm_pc = "done"
    /\ sm_out = <<>>

Next ==
    \E t \in Workers :
        \/ Receive(t)
        \/ LoadSessions(t)
        \/ DocDownload(t)
        \/ IngestBuild(t)
        \/ IngestPkl(t)
        \/ SessionUpdate(t)
        \/ SaveOpen(t)
        \/ SaveFlush(t)
        \/ SaveClose(t)
        \/ SaveFail(t)
        \/ DocFinish(t)
        \/ TextCheck(t)
        \/ GetQaFirst(t)
        \/ GetQaSecond(t)
        \/ Invoke(t)
        \/ DeliverPart(t)
        \/ DeliverReturn(t)

Spec == Init /\ [][Next]_vars

\* ------------------------------------------------- claims on split_message

SplitDone == sm_pc = "done"

AllSpace(text) == \A i \in 1..Len(text) : IsSpace(text[i])

RECURSIVE Covers(_, _)
\* text is w0 p1 w1 p2 ... pn wn, with ps = <<p1, ..., pn>> and every wi
\* made of whitespace only.
Covers(text, ps) ==
    IF ps = <<>> THEN AllSpace(text)
    ELSE LET p == Head(ps)
         IN  \E k \in 0..(Len(text) - Len(p)) :
                /\ AllSpace(SubSeq(text, 1, k))
                /\ SubSeq(text, k + 1, k + Len(p)) = p
                /\ Covers(SubSeq(text, k + Len(p) + 1, Len(text)), Tail(ps))

RECURSIVE TotalLen(_)
TotalLen(ps) == IF ps = <<>> THEN 0 ELSE Len(Head(ps)) + TotalLen(Tail(ps))

\* C3: every part split_message returns has length at most max_length, the
\* hard-cut case included.
C3_PartsWithinLimit ==
    SplitDone => \A i \in 1..Len(sm_out) : Len(sm_out[i]) <= sm_limit

\* C4: the returned parts are non-overlapping substrings of the text in
\* their original order, and every character of the text outside them is
\* whitespace.
C4_LosslessUpToWhitespace == SplitDone => Covers(sm_in, sm_out)

\* A split into several parts between which whitespace was trimmed.
C4_Witness ==
    /\ SplitDone
    /\ Len(sm_out) >= 2
    /\ TotalLen(sm_out) < Len(sm_in)

\* C5: no returned part is empty or made of whitespace only, and a text that
\* is empty or made of whitespace only yields the empty sequence.
C5_NoBlankPart ==
    SplitDone =>
        /\ \A i \in 1..Len(sm_out) :
              /\ sm_out[i] # <<>>
              /\ \E j \in 1..Len(sm_out[i]) : sm_out[i][j] \notin {" ", "\n"}
        /\ AllSpace(sm_in) => sm_out = <<>>

\* A whitespace-only text longer than the limit: the loop has cut blank
\* parts, and all of them were dropped.
C5_Witness ==
    /\ SplitDone
    /\ AllSpace(sm_in)
    /\ Len(sm_in) > sm_limit
    /\ Len(sm_parts) >= 2
    /\ sm_out = <<>>

\* The part the last iteration cut (read while the loop runs).
LastPart == sm_parts[Len(sm_parts)]

\* The part just cut is a prefix of the text the iteration started from and
\* the remainder is what follows it, without its leading whitespace.
CutIsPrefixThenTrim ==
    /\ SubSeq(sm_prev, 1, Len(LastPart)) = LastPart
    /\ \E k \in Len(LastPart)..Len(sm_prev) :
          /\ AllSpace(SubSeq(sm_prev, Len(LastPart) + 1, k))
          /\ sm_text = SubSeq(sm_prev, k + 1, Len(sm_prev))
          /\ sm_text # <<>> => ~IsSpace(sm_text[1])

\* C6 as stated: the example yields "AAAA. ", "BBBB. ", "CCCC." and a part cut
\* at a ". " sequence ends with the period and the space after it.
C6_SentenceCutKeepsSpace ==
    /\ (SplitDone /\ sm_in = ExampleText /\ sm_limit = 10) =>
          sm_out = << <<"A", "A", "A", "A", ".", " ">>,
                      <<"B", "B", "B", "B", ".", " ">>,
                      <<"C", "C", "C", "C", ".">> >>
    /\ (sm_pc = "loop" /\ sm_cut = "sentence") =>
          /\ Len(LastPart) >= 2
          /\ SubSeq(LastPart, Len(LastPart) - 1, Len(LastPart)) = <<".", " ">>

\* C6, amended: the example yields "AAAA.", "BBBB.", "CCCC."; a part cut at a
\* ". " sequence ends with the period, the space after it is in no part, and
\* the next part starts at the first character after the period that is not
\* whitespace.
C6_SentenceCutEndsWithPeriod ==
    /\ (SplitDone /\ sm_in = ExampleText /\ sm_limit = 10) =>
          sm_out = << <<"A", "A", "A", "A", ".">>,
                      <<"B", "B", "B", "B", ".">>,
                      <<"C", "C", "C", "C", ".">> >>
    /\ (sm_pc = "loop" /\ sm_cut = "sentence") =>
          /\ LastPart[Len(LastPart)] = "."
          /\ sm_prev[Len(LastPart) + 1] = " "
          /\ CutIsPrefixThenTrim

\* The example, split at its two ". " sequences.
C6_Witness ==
    /\ SplitDone
    /\ sm_in = ExampleText
    /\ sm_limit = 10
    /\ sm_cut = "sentence"
    /\ Len(sm_out) = 3

\* ---------------------------------------------------- claims on the webhook

\* The handler's history holds a line of that operation and kind.
Has(r, op, kind) == \E i \in 1..Len(r.log) : r.log[i].op = op /\ r.log[i].kind = kind

HasOp(r, op) == \E i \in 1..Len(r.log) : r.log[i].op = op

Sends(r) == SelectSeq(r.log, LAMBDA e : e.op = "send")

\* A document event that ran to its success reply.
IngestedOk(r) == r.kind = "document" /\ r.pc = "done" /\ r.sucesso

\* No event was received after r's: the storage is as r's handler left it.
Latest(r) == events = r.id

\* The members of sessions.json's text that are user x's.
Persisted(x) == {m \in sessions_file.text : m[1] = x}

\* C1: after two document events of different users that both downloaded
\* and ingested, sessions.json holds both users' records, the records other
\* users had before are still there, and the two index locations differ.
C1_NoLostUpdate ==
    \A a, b \in Workers :
        (/\ a # b
         /\ IngestedOk(h[a])
         /\ IngestedOk(h[b])
         /\ h[a].user # h[b].user
         /\ Latest(h[a]) \/ Latest(h[b])) =>
            /\ sessions_file.kind = "ok"
            /\ \A r \in {h[a], h[b]} :
                  /\ Cardinality(Persisted(r.user)) = 1
                  /\ \A m \in Persisted(r.user) : m[3] = r.url.segs[Len(r.url.segs)]
            /\ \A m \in h[a].at_load \cup h[b].at_load :
                  m[1] \notin {h[a].user, h[b].user} => m \in sessions_file.text
            /\ \A m \in Persisted(h[a].user), n \in Persisted(h[b].user) : m[2] # n[2]

\* C2: a load_sessions that runs while a save_sessions holds the file open
\* reads a whole file: never one of size 0 and never an unparseable one.
C2_LoadNeverSeesPartialFile ==
    \A t \in Workers : \A i \in 1..Len(h[t].log) :
        (h[t].log[i].op = "load_sessions" /\ h[t].log[i].i > 0) =>
            h[t].log[i].kind = "ok"

\* C7: a text event of a user who is not in the session collection sends the
\* onboarding prompt and nothing else, loads no index, calls no generation
\* and writes neither the collection nor its file.
C7_NoSessionGivesOnboardingOnly ==
    \A t \in Workers :
        (h[t].kind = "text" /\ Has(h[t], "check", "absent")) =>
            /\ h[t].pc = "done"
            /\ Sends(h[t]) = <<Send("onboarding")>>
            /\ \A op \in {"index_load", "invoke", "update", "save_open", "save"} :
                  ~HasOp(h[t], op)

\* A text event answered with the onboarding prompt while another user has a
\* session.
C7_Witness ==
    \E t \in Workers :
        /\ h[t].kind = "text"
        /\ h[t].pc = "done"
        /\ Has(h[t], "check", "absent")
        /\ h[t].user \notin DOMAIN user_sessions
        /\ user_sessions # EmptySessions

\* The events ran one after the other: r alone, right after the successful
\* document event of the same user, which ran alone too.
RightAfterIngest(r) ==
    /\ r.solo
    /\ r.prev.kind = "document"
    /\ r.prev.ok
    /\ r.prev.solo
    /\ r.prev.user = r.user

\* C8: a text event handled right after the same user's successful document
\* event, one after the other and with no index load raising, is not
\* answered with the onboarding prompt: the chain is invoked on the index at
\* the location the session records, built from the document just ingested.
C8_TextAfterIngestIsAnswered ==
    \A t \in Workers :
        LET r == h[t]
            doc == r.prev.url.segs[Len(r.prev.url.segs)]
        IN  (/\ r.kind = "text"
             /\ r.pc = "done"
             /\ RightAfterIngest(r)
             /\ ~Has(r, "index_load", "raised")) =>
                /\ ~Has(r, "send", "onboarding")
                /\ ~Has(r, "send", "reload_index")
                /\ HasOp(r, "invoke")
                /\ r.chain = [faiss |-> doc, pkl |-> doc]
                /\ Latest(r) =>
                      /\ r.user \in DOMAIN user_sessions
                      /\ faiss_indices[user_sessions[r.user].faiss_index_path]
                            = [dir |-> TRUE, faiss |-> doc, pkl |-> doc]

\* Such a text event, answered in two marked parts.
C8_Witness ==
    \E t \in Workers :
        /\ h[t].kind = "text"
        /\ h[t].pc = "done"
        /\ RightAfterIngest(h[t])
        /\ Has(h[t], "invoke", "ok")
        /\ Has(h[t], "send", "part_marked")

\* Two successful document events of one user, d1 then d2, one after the
\* other, and no event since.
Reingested(r) ==
    /\ IngestedOk(r)
    /\ RightAfterIngest(r)
    /\ r.prev.url # r.url
    /\ Latest(r)

\* What both statements of C9 share: one record for the user, naming d2,
\* whose location holds an index built from d2 and nothing of d1.
ReingestRecorded(r) ==
    LET d2 == r.url.segs[Len(r.url.segs)]
    IN  /\ sessions_file.kind = "ok"
        /\ Cardinality(Persisted(r.user)) = 1
        /\ \A m \in Persisted(r.user) :
              /\ m[3] = d2
              /\ faiss_indices[m[2]] = [dir |-> TRUE, faiss |-> d2, pkl |-> d2]

\* C9 as stated: after d1 then d2 the user's one record names d2 and an
\* index built from d2, and the location recorded before is no longer the
\* one the session references.
C9_ReingestLeavesPriorLocation ==
    \A t \in Workers :
        Reingested(h[t]) =>
            /\ ReingestRecorded(h[t])
            /\ \A m \in Persisted(h[t].user), old \in h[t].at_load :
                  old[1] = h[t].user => m[2] # old[2]

\* C9, amended: after d1 then d2 the user's one record names d2 and an index
\* built from d2; the location is the one recorded before, whose content was
\* replaced, so nothing of d1 is retrievable through the session.
C9_ReingestReplacesInPlace ==
    \A t \in Workers :
        Reingested(h[t]) =>
            /\ ReingestRecorded(h[t])
            /\ \E old \in h[t].at_load : old[1] = h[t].user
            /\ \A m \in Persisted(h[t].user), old \in h[t].at_load :
                  old[1] = h[t].user =>
                      /\ m[2] = old[2]
                      /\ old[3] = h[t].prev.url.segs[Len(h[t].prev.url.segs)]
                      /\ old[3] # m[3]

\* The second of two successful document events of one user has finished.
C9_Witness == \E t \in Workers : Reingested(h[t])

\* C10: once a document event's handler has finished, however it ended, the
\* file downloaded for it is no longer in temp_pdfs.
C10_TempFileRemoved ==
    \A t \in Workers :
        (h[t].kind = "document" /\ h[t].pc \in {"done", "crashed"}) =>
            h[t].id \notin temp_pdfs

\* A text event whose user had a session record when line 307 looked, and
\* whose handler never got a chain to invoke.
IndexUnavailable(r) ==
    /\ r.kind = "text"
    /\ r.pc = "done"
    /\ Has(r, "check", "present")
    /\ ~HasOp(r, "invoke")

\* C11: a text event of a user who has a session record but whose index
\* cannot be loaded is answered with the re-send-the-document reply and not
\* with the onboarding prompt; the onboarding prompt is sent only when no
\* session record exists.
C11_UnloadableIndexAsksResend ==
    \A t \in Workers :
        /\ IndexUnavailable(h[t]) => Sends(h[t]) = <<Send("reload_index")>>
        /\ (h[t].kind = "text" /\ Has(h[t], "send", "onboarding")) =>
               Has(h[t], "check", "absent")

\* C12: when load_sessions returns, a missing sessions.json has been created
\* and user_sessions is empty; after a corrupt or zero-length file
\* user_sessions is empty whatever earlier requests left in it; otherwise
\* user_sessions holds what the file held.
C12_LoadFallsBackToEmpty ==
    \A t \in Workers :
        \A i \in 1..Len(h[t].log) :
            h[t].log[i].op = "load_sessions" =>
                /\ h[t].log[i].kind = "missing" =>
                      h[t].loaded = EmptySessions /\ sessions_file.kind # "missing"
                /\ h[t].log[i].kind \in {"corrupt", "empty"} =>
                      h[t].loaded = EmptySessions
                /\ h[t].log[i].kind = "ok" =>
                      JsonDump(h[t].loaded) = h[t].at_load

\* A text event whose generator call returned an answer.
Answered(r) == r.kind = "text" /\ Has(r, "invoke", "ok")

\* The answer the generator returned to r's handler.
AnswerOf(r) == SelectSeq(r.log, LAMBDA e : e.op = "invoke")[1].body

\* C13: when the answer is split into N parts, the send attempts are the
\* parts 1..N in increasing order, each once; with N = 1 the message is the
\* part alone, with N > 1 the i-th message carries the marker "part i of N"
\* before the i-th part.
C13_PartsSentInOrder ==
    \A t \in Workers :
        Answered(h[t]) =>
            LET parts == split_message(AnswerOf(h[t]), AnswerLimit)
                N == Len(parts)
                S == Sends(h[t])
            IN  /\ Len(S) <= N
                /\ h[t].pc = "done" => Len(S) = N
                /\ \A i \in 1..Len(S) :
                      /\ S[i].body = parts[i]
                      /\ N = 1 => S[i].kind = "part_plain"
                      /\ N > 1 => /\ S[i].kind = "part_marked"
                                  /\ S[i].i = i
                                  /\ S[i].n = N

\* An answer of two parts was delivered and the handler returned.
C13_Witness ==
    \E t \in Workers :
        /\ Answered(h[t])
        /\ h[t].pc = "done"
        /\ Len(Sends(h[t])) = 2

\* C14: whichever send attempts fail while an answer of N parts is delivered,
\* all N parts are attempted in order: a failure on part i is followed by the
\* attempt of part i + 1, the handler goes on to its return, and no error
\* reply is sent for it.
C14_FailedSendsDoNotStopDelivery ==
    \A t \in Workers :
        Answered(h[t]) =>
            LET log == h[t].log
                parts == h[t].partes_resposta
                N == Len(parts)
            IN  /\ h[t].pc \in {"deliver", "done"}
                /\ ~Has(h[t], "send", "question_error")
                /\ h[t].pc = "done" => Len(Sends(h[t])) = N
                /\ \A k \in 1..Len(log) :
                      log[k].op = "send_failed" =>
                          /\ log[k - 1] = PartMessages(parts)[log[k].i]
                          /\ (log[k].i < N /\ k < Len(log)) =>
                                log[k + 1] = PartMessages(parts)[log[k].i + 1]
                          /\ (log[k].i < N /\ k = Len(log)) => h[t].pc = "deliver"
                          /\ log[k].i = N => k = Len(log)

\* The first of two parts failed, the second was attempted all the same, and
\* the handler returned.
C14_Witness ==
    \E t \in Workers :
        /\ Answered(h[t])
        /\ h[t].pc = "done"
        /\ \E k \in 1..Len(h[t].log) :
              /\ h[t].log[k].op = "send_failed"
              /\ h[t].log[k].i = 1
              /\ h[t].log[k].n = 2
        /\ Has(h[t], "send", "part_marked")
        /\ Sends(h[t])[Len(Sends(h[t]))].i = 2

\* The send attempts of r that carry a part of the answer.
PartSends(r) == SelectSeq(r.log, LAMBDA e : e.op = "send" /\ e.kind \in {"part_plain", "part_marked"})

\* C18: a text event with a valid session calls the generator at most once;
\* when the call succeeds only the parts of the answer are sent and no final
\* reply follows them; when it fails exactly one apology is sent and no part
\* of an answer.
C18_OneInvokeOneKindOfReply ==
    \A t \in Workers :
        h[t].kind = "text" =>
            /\ Len(SelectSeq(h[t].log, LAMBDA e : e.op = "invoke")) <= 1
            /\ Has(h[t], "invoke", "ok") =>
                  /\ Sends(h[t]) = PartSends(h[t])
                  /\ h[t].pc = "done" =>
                        Sends(h[t]) = PartMessages(split_message(AnswerOf(h[t]), AnswerLimit))
            /\ Has(h[t], "invoke", "raised") =>
                  /\ h[t].pc = "done"
                  /\ Sends(h[t]) = <<Send("question_error")>>
                  /\ PartSends(h[t]) = <<>>

\* Two text events have finished, one answered in parts, one with the
\* apology.
C18_Witness ==
    \E a, b \in Workers :
        /\ h[a].pc = "done"
        /\ Has(h[a], "invoke", "ok")
        /\ PartSends(h[a]) # <<>>
        /\ h[b].pc = "done"
        /\ Has(h[b], "invoke", "raised")

\* C19: every event that is not ignored ends with at least one send attempt
\* to its sender, whatever the outcome and whatever text the generator
\* answered.
C19_EveryEventIsAnswered ==
    \A t \in Workers :
        h[t].pc \in {"done", "crashed"} => Sends(h[t]) # <<>>

\* The replies that end a document event.
FinalReplies(r) ==
    SelectSeq(r.log, LAMBDA e : e.op = "send" /\ e.kind \in {"success", "ingest_error", "download_failed"})

\* C15: in a document event the processing notice comes before the download,
\* the download before the ingestion, the ingestion before the session
\* update, and exactly one final reply (success naming the document,
\* ingestion error or download failure) is sent after them; the session is
\* updated and saved only on the success path.
C15_DocumentStepsInOrder ==
    \A t \in Workers :
        (h[t].kind = "document" /\ Finished(h[t])) =>
            LET log == h[t].log
            IN  /\ log[2] = Send("processing")
                /\ log[3].op = "download"
                /\ \A k \in 1..Len(log) :
                      /\ log[k].op \in {"ingest", "ingest_pkl"} => k > 3
                      /\ log[k].op \in {"update", "save_open", "save"} =>
                            \E j \in 1..(k - 1) :
                                log[j].op = "ingest_pkl" /\ log[j].kind = "ok"
                /\ Len(FinalReplies(h[t])) = 1
                /\ log[Len(log)] = FinalReplies(h[t])[1]
                /\ HasOp(h[t], "update") <=> Has(h[t], "send", "success")
                /\ Has(h[t], "send", "success") =>
                      /\ HasOp(h[t], "save")
                      /\ FinalReplies(h[t])[1].body = <<OriginalFileName(h[t].url)>>

\* C16: split_message terminates for every text and every limit above 0:
\* each iteration of the loop leaves a remainder strictly shorter than the
\* text it cut, also when the cut point is index 0, and the call reaches its
\* return.
C16_SplitTerminates ==
    /\ [](sm_cut # "none" => Len(sm_text) < Len(sm_prev))
    /\ <>(sm_pc = "done")

\* The last iteration cut at index 0, at a space, newline or sentence end,
\* and the call has returned.
C16_Witness ==
    /\ sm_pc = "done"
    /\ sm_cut \in {"newline", "sentence", "space"}
    /\ SplitPoint(sm_prev, sm_limit) = 0
    /\ Len(sm_text) < Len(sm_prev)

\* What the get_qa_chain_for_user calls of r's handler read, in order.
IndexLoads(r) == SelectSeq(r.log, LAMBDA e : e.op = "index_load")

\* C17: whatever document event of the same user runs beside a text event,
\* an index load of the text event never reads an index that is being
\* overwritten (both files it reads come from one document, the previous or
\* the new one), and the two loads of one text event read the same index.
C17_IndexLoadSeesWholeIndex ==
    \A t \in Workers :
        h[t].kind = "text" =>
            LET L == IndexLoads(h[t])
            IN  /\ \A k \in 1..Len(L) :
                      L[k].kind # "raised" => L[k].body = <<L[k].kind>>
                /\ (Len(L) = 2 /\ L[1].kind # "raised" /\ L[2].kind # "raised") =>
                      L[1] = L[2]

\* The index stored at path was built, both files, from document doc.
IndexBuiltFrom(path, doc) ==
    faiss_indices[path] = [dir |-> TRUE, faiss |-> doc, pkl |-> doc]

\* C20: once every handler has finished, also after two document events of
\* one user ran side by side and after a re-ingestion that failed, each
\* session record, in sessions.json and in memory, names the document from
\* which the index stored at the record's location was built.
C20_SessionNamesIndexedDocument ==
    (\A t \in Workers : Finished(h[t])) =>
        /\ sessions_file.kind = "ok" =>
              \A m \in sessions_file.text : IndexBuiltFrom(m[2], m[3])
        /\ \A x \in DOMAIN user_sessions :
              IndexBuiltFrom(user_sessions[x].faiss_index_path,
                             user_sessions[x].pdf_name)

====
